---- MODULE Spec2Model ----
(***************************************************************************)
(* Model of snail-mcp's read_excel tool: the facade of src/mcp/server.py   *)
(* and the extraction-and-encoding pipeline of src/mcp/excel/read.py.      *)
(*                                                                         *)
(* A Python str is a sequence of one-character strings.  The characters    *)
(* the code treats specially are named: BSL (backslash), TAB, CR, LF.      *)
(* A Python Optional is a sequence of length 0 (None) or 1.                *)
(***************************************************************************)
EXTENDS Integers, Sequences, FiniteSets, TLC

VARIABLES
    pc, args, wb, closes, lateReads, sheet_names, idx, cells_by_sheet, ret, result,
    escIn, escOut,
    projOut, projCell, obj, parts,
    ws, rng, cells

pipeVars == <<pc, args, wb, closes, lateReads, sheet_names, idx, cells_by_sheet, ret, result>>
escVars == <<escIn, escOut>>
projVars == <<projOut, projCell, obj, parts>>
cellVars == <<ws, rng, cells>>
vars == <<pipeVars, escVars, projVars, cellVars>>

(***************************************************************************)
(* Bounds of the model.                                                    *)
(***************************************************************************)
MaxLen == 3
MaxSheetsLen == 3
MaxArg == 2

(***************************************************************************)
(* Strings.                                                                *)
(***************************************************************************)
BSL == "BSL"
TAB == "TAB"
CR == "CR"
LF == "LF"

StringsOver(alphabet, n) == UNION {[1..k -> alphabet] : k \in 0..n}

RECURSIVE Concat(_)
Concat(ss) == IF ss = <<>> THEN <<>> ELSE Head(ss) \o Concat(Tail(ss))

\* str.replace(old, new) for a one-character old: every occurrence, left to right.
Replace(s, old, new) == Concat([i \in 1..Len(s) |-> IF s[i] = old THEN new ELSE <<s[i]>>])

Contains(s, ch) == \E i \in 1..Len(s) : s[i] = ch

\* str.lower() on the characters the inputs are drawn from.
LowerChar(ch) ==
    CASE ch = "V" -> "v" [] ch = "B" -> "b" [] ch = "F" -> "f" [] ch = "N" -> "n"
      [] ch = "Z" -> "z" [] ch = "C" -> "c" [] ch = "G" -> "g"
      [] ch = "J" -> "j" [] ch = "T" -> "t" [] ch = "X" -> "x"
      [] OTHER -> ch

Lower(s) == [i \in 1..Len(s) |-> LowerChar(s[i])]

IsSpace(ch) == ch \in {" ", TAB, CR, LF}

\* str.strip(): leading and trailing whitespace removed.
RECURSIVE LStrip(_)
LStrip(s) == IF s # <<>> /\ IsSpace(Head(s)) THEN LStrip(Tail(s)) ELSE s

RECURSIVE RStrip(_)
RStrip(s) == IF s # <<>> /\ IsSpace(s[Len(s)]) THEN RStrip(SubSeq(s, 1, Len(s) - 1)) ELSE s

Strip(s) == RStrip(LStrip(s))

\* str.split(sep) for a one-character sep: at least one piece, empty pieces kept.
RECURSIVE Split(_, _)
Split(s, sep) ==
    IF ~Contains(s, sep) THEN <<s>>
    ELSE LET i == CHOOSE k \in 1..Len(s) : s[k] = sep /\ \A m \in 1..(k - 1) : s[m] # sep
         IN <<SubSeq(s, 1, i - 1)>> \o Split(SubSeq(s, i + 1, Len(s)), sep)

\* sep.join(pieces)
RECURSIVE Join(_, _)
Join(pieces, sep) ==
    IF pieces = <<>> THEN <<>>
    ELSE IF Len(pieces) = 1 THEN pieces[1]
    ELSE pieces[1] \o sep \o Join(Tail(pieces), sep)

Digit(d) == CASE d = 0 -> "0" [] d = 1 -> "1" [] d = 2 -> "2" [] d = 3 -> "3" [] d = 4 -> "4"
              [] d = 5 -> "5" [] d = 6 -> "6" [] d = 7 -> "7" [] d = 8 -> "8" [] d = 9 -> "9"

\* str(n) for an int n >= 0.
RECURSIVE IntStr(_)
IntStr(n) == IF n < 10 THEN <<Digit(n)>> ELSE IntStr(n \div 10) \o <<Digit(n % 10)>>

(***************************************************************************)
(* _esc                                                                    *)
(***************************************************************************)
EscBackslashLast(s) ==
    IF s = <<>> THEN s
    ELSE Replace(Replace(Replace(Replace(s, TAB, <<BSL, "t">>), CR, <<BSL, "r">>),
                         LF, <<BSL, "n">>), BSL, <<BSL, BSL>>)

_esc(s) ==
    IF s = <<>> THEN s
    ELSE Replace(Replace(Replace(Replace(s, BSL, <<BSL, BSL>>), TAB, <<BSL, "t">>),
                         CR, <<BSL, "r">>), LF, <<BSL, "n">>)

(***************************************************************************)
(* Raw cells, as the workbook accessor (openpyxl) yields them.             *)
(***************************************************************************)
DEFAULT_OUT == <<"v", "b", "f">>
DEFAULT_FMT == <<"j">>

NoneV == [kind |-> "none", s |-> <<>>, n |-> 0, b |-> FALSE]
StrV(s) == [kind |-> "str", s |-> s, n |-> 0, b |-> FALSE]
IntV(n) == [kind |-> "int", s |-> <<>>, n |-> n, b |-> FALSE]
BoolV(b) == [kind |-> "bool", s |-> <<>>, n |-> 0, b |-> b]

\* cell.font and cell.fill: None, or an object whose colour is None or has an rgb.
NoFont == <<>>
Font(bold, name, size, color) == <<[bold |-> bold, name |-> name, size |-> size, color |-> color]>>
NoFill == <<>>
Fill(fgColor) == <<[fgColor |-> fgColor]>>
NoColor == <<>>
Color(rgb) == <<[rgb |-> rgb]>>

RawCell(value, font, fill) == [value |-> value, font |-> font, fill |-> fill]

Red == <<"F", "F", "0", "0", "0", "0">>
PlainFont == Font(FALSE, <<<<"A">>>>, <<11>>, NoColor)
BoldFont == Font(TRUE, <<<<"A", TAB>>>>, <<0>>, Color(<<Red>>))
BlankCell == RawCell(NoneV, PlainFont, Fill(NoColor))

_font_color(cell) ==
    IF cell.font = <<>> \/ cell.font[1].color = <<>> THEN <<>>
    ELSE LET rgb == cell.font[1].color[1].rgb IN IF rgb = <<>> THEN <<>> ELSE rgb[1]

_fill_color(cell) ==
    IF cell.fill = <<>> \/ cell.fill[1].fgColor = <<>> THEN <<>>
    ELSE LET rgb == cell.fill[1].fgColor[1].rgb IN IF rgb = <<>> THEN <<>> ELSE rgb[1]

\* str(value) of a non-str value
PyStr(v) ==
    CASE v.kind = "int" -> IntStr(v.n)
      [] v.kind = "bool" -> IF v.b THEN <<"T", "r", "u", "e">> ELSE <<"F", "a", "l", "s", "e">>
      [] OTHER -> v.s

_cell_value_str(cell) ==
    IF cell.value.kind = "none" THEN <<>>
    ELSE IF cell.value.kind = "str" THEN cell.value.s ELSE PyStr(cell.value)

IsBlankFalsy(val) ==
    \/ val.kind = "none"
    \/ (val.kind = "str" /\ Strip(val.s) = <<>>)
    \/ (val.kind = "int" /\ val.n = 0)
    \/ (val.kind = "bool" /\ ~val.b)

_is_blank(val) == val.kind = "none" \/ (val.kind = "str" /\ Strip(val.s) = <<>>)

\* isinstance(val, str) and val.startswith("=")
IsFormula(val) == val.kind = "str" /\ val.s # <<>> /\ Head(val.s) = "="

(***************************************************************************)
(* Sheets: the used range a sheet reports (0 when it reports none) and its *)
(* cells; ws.cell() on any other coordinate yields an empty cell.          *)
(***************************************************************************)
Sheet(min_row, max_row, min_column, max_column, grid) ==
    [min_row |-> min_row, max_row |-> max_row, min_column |-> min_column,
     max_column |-> max_column, grid |-> grid]

WsCell(sheet, row, col) ==
    IF <<row, col>> \in DOMAIN sheet.grid THEN sheet.grid[<<row, col>>] ELSE BlankCell

_sheet_range(sheet, row_start, row_end, col_start, col_end) ==
    LET r1 == IF row_start > 0 THEN row_start ELSE IF sheet.min_row # 0 THEN sheet.min_row ELSE 1
        r2 == IF row_end > 0 THEN row_end ELSE IF sheet.max_row # 0 THEN sheet.max_row ELSE 1
        c1 == IF col_start > 0 THEN col_start
              ELSE IF sheet.min_column # 0 THEN sheet.min_column ELSE 1
        c2 == IF col_end > 0 THEN col_end
              ELSE IF sheet.max_column # 0 THEN sheet.max_column ELSE 1
    IN <<r1, r2, c1, c2>>

_CellData(sheet, row, col) ==
    LET cell == WsCell(sheet, row, col)
    IN [row |-> row,
        col |-> col,
        value |-> _cell_value_str(cell),
        is_formula |-> IsFormula(cell.value),
        bold |-> IF cell.font # <<>> THEN cell.font[1].bold ELSE FALSE,
        font_name |-> IF cell.font # <<>> THEN cell.font[1].name ELSE <<<<>>>>,
        font_size |-> IF cell.font # <<>> THEN cell.font[1].size ELSE <<>>,
        font_color |-> _font_color(cell),
        fill_color |-> _fill_color(cell)]

\* One row of _collect_cells: the inner loop over col in range(c1, c2 + 1).
RECURSIVE CollectRow(_, _, _, _, _)
CollectRow(sheet, row, c1, c2, sparse) ==
    IF c1 > c2 THEN <<>>
    ELSE (IF sparse /\ _is_blank(WsCell(sheet, row, c1).value) THEN <<>>
          ELSE <<_CellData(sheet, row, c1)>>)
         \o CollectRow(sheet, row, c1 + 1, c2, sparse)

\* The same cells, the column loop outermost.
RECURSIVE CollectColumnMajor(_, _, _, _, _, _)
CollectColumnMajor(sheet, r1, r2, c1, c2, sparse) ==
    IF c1 > c2 THEN <<>>
    ELSE Concat([i \in 1..(IF r2 >= r1 THEN r2 - r1 + 1 ELSE 0) |->
                    CollectRow(sheet, r1 + i - 1, c1, c1, sparse)])
         \o CollectColumnMajor(sheet, r1, r2, c1 + 1, c2, sparse)

\* _collect_cells: the outer loop over row in range(r1, r2 + 1).
RECURSIVE _collect_cells(_, _, _, _, _, _)
_collect_cells(sheet, r1, r2, c1, c2, sparse) ==
    IF r1 > r2 THEN <<>>
    ELSE CollectRow(sheet, r1, c1, c2, sparse)
         \o _collect_cells(sheet, r1 + 1, r2, c1, c2, sparse)

(***************************************************************************)
(* Field projection.                                                       *)
(***************************************************************************)
Tags == {"v", "b", "n", "z", "c", "g", "f"}

ParseOutNoDefault(out) == [t \in Tags |-> Contains(Lower(out), t)]

_parse_out(out) ==
    LET o == Lower(IF out = <<>> THEN DEFAULT_OUT ELSE out)
    IN [t \in Tags |-> Contains(o, t)]

JInt(n) == <<"int", n>>
JStr(s) == <<"str", s>>
JBool(b) == <<"bool", b>>
JNull == <<"null">>

\* cell.font_name or ""
NameOrEmpty(cell) == IF cell.font_name = <<>> THEN <<>> ELSE cell.font_name[1]

\* The dict of _cell_to_json, as its (key, value) pairs in insertion order.
_cell_to_json(cell, fields) ==
    <<<<"row", JInt(cell.row)>>, <<"col", JInt(cell.col)>>>>
    \o (IF fields["v"] THEN <<<<"value", JStr(cell.value)>>>> ELSE <<>>)
    \o (IF fields["f"] /\ cell.is_formula THEN <<<<"formula", JBool(TRUE)>>>> ELSE <<>>)
    \o (IF fields["b"] THEN <<<<"bold", JBool(cell.bold)>>>> ELSE <<>>)
    \o (IF fields["n"] THEN <<<<"font_name", JStr(NameOrEmpty(cell))>>>> ELSE <<>>)
    \o (IF fields["z"]
        THEN <<<<"font_size", IF cell.font_size = <<>> THEN JNull ELSE JInt(cell.font_size[1])>>>>
        ELSE <<>>)
    \o (IF fields["c"] THEN <<<<"font_color", JStr(cell.font_color)>>>> ELSE <<>>)
    \o (IF fields["g"] THEN <<<<"fill_color", JStr(cell.fill_color)>>>> ELSE <<>>)

Flag(b) == IF b THEN <<"1">> ELSE <<"0">>

TextPartsBoldFirst(cell, fields) ==
    <<<<"c", <<"c">>>>, <<"row", IntStr(cell.row)>>, <<"col", IntStr(cell.col)>>>>
    \o (IF fields["v"] THEN <<<<"value", _esc(cell.value)>>>> ELSE <<>>)
    \o (IF fields["b"] THEN <<<<"bold", Flag(cell.bold)>>>> ELSE <<>>)
    \o (IF fields["f"] THEN <<<<"formula", Flag(cell.is_formula)>>>> ELSE <<>>)
    \o (IF fields["n"] THEN <<<<"font_name", _esc(NameOrEmpty(cell))>>>> ELSE <<>>)
    \o (IF fields["z"]
        THEN <<<<"font_size", IF cell.font_size # <<>> /\ cell.font_size[1] # 0
                              THEN IntStr(cell.font_size[1]) ELSE <<>>>>>>
        ELSE <<>>)
    \o (IF fields["c"] THEN <<<<"font_color", _esc(cell.font_color)>>>> ELSE <<>>)
    \o (IF fields["g"] THEN <<<<"fill_color", _esc(cell.fill_color)>>>> ELSE <<>>)

\* The list of _cell_to_text_parts; each token is paired with the name of the
\* field whose parts.append() produced it.
_cell_to_text_parts(cell, fields) ==
    <<<<"c", <<"c">>>>, <<"row", IntStr(cell.row)>>, <<"col", IntStr(cell.col)>>>>
    \o (IF fields["v"] THEN <<<<"value", _esc(cell.value)>>>> ELSE <<>>)
    \o (IF fields["f"] THEN <<<<"formula", Flag(cell.is_formula)>>>> ELSE <<>>)
    \o (IF fields["b"] THEN <<<<"bold", Flag(cell.bold)>>>> ELSE <<>>)
    \o (IF fields["n"] THEN <<<<"font_name", _esc(NameOrEmpty(cell))>>>> ELSE <<>>)
    \o (IF fields["z"]
        THEN <<<<"font_size", IF cell.font_size # <<>> /\ cell.font_size[1] # 0
                              THEN IntStr(cell.font_size[1]) ELSE <<>>>>>>
        ELSE <<>>)
    \o (IF fields["c"] THEN <<<<"font_color", _esc(cell.font_color)>>>> ELSE <<>>)
    \o (IF fields["g"] THEN <<<<"fill_color", _esc(cell.fill_color)>>>> ELSE <<>>)

Keys(pairs) == [i \in 1..Len(pairs) |-> pairs[i][1]]
Tokens(pairs) == [i \in 1..Len(pairs) |-> pairs[i][2]]

\* "\t".join(parts)
TextLine(pairs) == Join(Tokens(pairs), <<TAB>>)

(***************************************************************************)
(* The files the tool is pointed at.  Path "a" and "b" hold workbooks,     *)
(* path "m" does not exist.                                                *)
(***************************************************************************)
NameA == <<"A">>
NameB == <<"B">>

SheetA ==
    Sheet(1, 2, 1, 2,
          (<<1, 1>> :> RawCell(StrV(<<"a", TAB>>), BoldFont, Fill(Color(<<Red>>))))
          @@ (<<1, 2>> :> RawCell(IntV(0), PlainFont, Fill(NoColor)))
          @@ (<<2, 1>> :> RawCell(NoneV, PlainFont, NoFill))
          @@ (<<2, 2>> :> RawCell(StrV(<<" ">>), NoFont, NoFill)))

SheetB == Sheet(2, 2, 1, 1, (<<2, 1>> :> RawCell(StrV(<<"=", "a">>), PlainFont, Fill(NoColor))))

\* A sheet with no cells at all: it reports no used range.
SheetEmpty == Sheet(0, 0, 0, 0, <<>>)

Workbook(sheetnames, sheets) == [sheetnames |-> sheetnames, sheets |-> sheets]

Files ==
    (<<"a">> :> Workbook(<<NameA, NameB>>, (NameA :> SheetA) @@ (NameB :> SheetB)))
    @@ (<<"b">> :> Workbook(<<NameB>>, (NameB :> SheetEmpty)))

Paths == {<<"a">>, <<"b">>, <<"m">>}

\* Path(filepath).exists()
Exists(path) == path \in DOMAIN Files

Range(seq) == {seq[i] : i \in 1..Len(seq)}

(***************************************************************************)
(* The arguments of a call.                                                *)
(***************************************************************************)
SheetsAlphabet == {"A", "B", ",", " "}
FmtStrings == {<<>>, <<"j">>, <<"J">>, <<"t">>, <<"T">>, <<"x">>, <<"t", "j">>}
PipeOuts == {<<>>, <<"g", "V">>}
PipeRanges ==
    {<<0, 0, 0, 0>>, <<0, 1, 0, 0>>, <<0, 0, 2, 1>>, <<1, 3, 1, 3>>, <<2, 0, 2, 0>>}

Args(filepath, out, fmt, sheets, r, sparse) ==
    [filepath |-> filepath, out |-> out, fmt |-> fmt, sheets |-> sheets,
     row_start |-> r[1], row_end |-> r[2], col_start |-> r[3], col_end |-> r[4],
     sparse |-> sparse]

NoArgs == Args(<<>>, <<>>, <<>>, <<>>, <<0, 0, 0, 0>>, TRUE)

\* fmt_char = (fmt or DEFAULT_FMT).lower()[:1]
FmtChar(fmt) ==
    LET f == Lower(IF fmt = <<>> THEN DEFAULT_FMT ELSE fmt) IN SubSeq(f, 1, 1)

\* [s.strip() for s in sheets.split(",") if s.strip()]
RequestedNames(sheets) ==
    LET pieces == Split(sheets, ",")
    IN SelectSeq([i \in 1..Len(pieces) |-> Strip(pieces[i])], LAMBDA s : s # <<>>)

(***************************************************************************)
(* The two encoders of read_excel.                                         *)
(***************************************************************************)
\* result[name] = value on a dict kept as its (key, value) pairs in insertion order.
DictSet(d, key, value) ==
    IF \E i \in 1..Len(d) : d[i][1] = key
    THEN [i \in 1..Len(d) |-> IF d[i][1] = key THEN <<key, value>> ELSE d[i]]
    ELSE Append(d, <<key, value>>)

JsonCells(cs, fields) == [i \in 1..Len(cs) |-> _cell_to_json(cs[i], fields)]

\* The document json.dumps() serialises: sheet name -> {"cells": [...]}.
RECURSIVE EncodeJsonFrom(_, _, _, _)
EncodeJsonFrom(names, cbs, fields, acc) ==
    IF names = <<>> THEN acc
    ELSE EncodeJsonFrom(Tail(names), cbs, fields,
                        IF Head(names) \in DOMAIN cbs
                        THEN DictSet(acc, Head(names), JsonCells(cbs[Head(names)], fields))
                        ELSE acc)

EncodeJson(names, cbs, fields) == EncodeJsonFrom(names, cbs, fields, <<>>)

TextCellLines(cs, fields) == [i \in 1..Len(cs) |-> TextLine(_cell_to_text_parts(cs[i], fields))]

RECURSIVE TextLines(_, _, _)
TextLines(names, cbs, fields) ==
    IF names = <<>> THEN <<>>
    ELSE (IF Head(names) \in DOMAIN cbs
          THEN <<<<">">> \o _esc(Head(names))>> \o TextCellLines(cbs[Head(names)], fields)
          ELSE <<>>)
         \o TextLines(Tail(names), cbs, fields)

\* "\n".join(lines)
EncodeText(names, cbs, fields) == Join(TextLines(names, cbs, fields), <<LF>>)

(***************************************************************************)
(* One call of the tool: the facade of server.py around read_excel of      *)
(* read.py.  pc is the position of the call; ret is what read_excel hands  *)
(* back to the facade, result what the facade hands back to its caller.    *)
(***************************************************************************)
NoResult == [kind |-> "none", text |-> <<>>, doc |-> <<>>]
Raised == [kind |-> "raised", text |-> <<>>, doc |-> <<>>]
TextResult(s) == [kind |-> "text", text |-> s, doc |-> <<>>]
JsonResult(d) == [kind |-> "json", text |-> <<>>, doc |-> d]
ErrorResult(path) == [kind |-> "error", text |-> <<"error: file not found: ">> \o path, doc |-> <<>>]

PipeIdle ==
    /\ pc = "idle"
    /\ args = NoArgs
    /\ wb = "none"
    /\ closes = 0
    /\ lateReads = 0
    /\ sheet_names = <<>>
    /\ idx = 1
    /\ cells_by_sheet = <<>>
    /\ ret = NoResult
    /\ result = NoResult

\* server.read_excel up to its return statement.
FacadeCall ==
    /\ pc = "idle"
    /\ \E filepath \in Paths, out \in PipeOuts, fmt \in FmtStrings,
          sheets \in StringsOver(SheetsAlphabet, MaxSheetsLen),
          r \in PipeRanges, sparse \in BOOLEAN :
          /\ args' = Args(filepath, out, fmt, sheets, r, sparse)
          /\ IF Exists(filepath)
             THEN pc' = "load" /\ result' = result
             ELSE pc' = "returned" /\ result' = ErrorResult(filepath)
    /\ UNCHANGED <<wb, closes, lateReads, sheet_names, idx, cells_by_sheet, ret>>

\* read.read_excel, lines 144-151: the workbook opens.
LoadWorkbook ==
    /\ pc = "load"
    /\ wb' = "open"
    /\ sheet_names' = (IF RequestedNames(args.sheets) # <<>> THEN RequestedNames(args.sheets)
                       ELSE Files[args.filepath].sheetnames)
    /\ idx' = 1
    /\ cells_by_sheet' = <<>>
    /\ pc' = "loop"
    /\ UNCHANGED <<args, closes, lateReads, ret, result>>

\* openpyxl.load_workbook raises: nothing was opened.
LoadFault ==
    /\ pc = "load"
    /\ ret' = Raised
    /\ pc' = "propagate"
    /\ UNCHANGED <<args, wb, closes, lateReads, sheet_names, idx, cells_by_sheet, result>>

InvertedRowsOnly(r) == r[2] < r[1]

\* Line 157: r2 < r1 or c2 < c1
Inverted(r) == r[2] < r[1] \/ r[4] < r[3]

\* One pass of the loop over sheet_names, lines 152-159.
ProcessSheet ==
    /\ pc = "loop"
    /\ idx <= Len(sheet_names)
    /\ LET name == sheet_names[idx]
           book == Files[args.filepath]
       IN IF name \notin Range(book.sheetnames)
          THEN UNCHANGED <<cells_by_sheet, lateReads>>
          ELSE LET r == _sheet_range(book.sheets[name], args.row_start, args.row_end,
                                     args.col_start, args.col_end)
               IN IF Inverted(r)
                  THEN UNCHANGED <<cells_by_sheet, lateReads>>
                  ELSE /\ cells_by_sheet' =
                             [n \in DOMAIN cells_by_sheet \cup {name} |->
                                 IF n = name
                                 THEN _collect_cells(book.sheets[name], r[1], r[2], r[3], r[4],
                                                     args.sparse)
                                 ELSE cells_by_sheet[n]]
                       /\ lateReads' = lateReads + (IF wb = "open" THEN 0 ELSE 1)
    /\ idx' = idx + 1
    /\ UNCHANGED <<pc, args, wb, closes, sheet_names, ret, result>>

\* The accessor raises while a sheet is being read.
ExtractFault ==
    /\ pc = "loop"
    /\ idx <= Len(sheet_names)
    /\ pc' = "unwind"
    /\ UNCHANGED <<args, wb, closes, lateReads, sheet_names, idx, cells_by_sheet, ret, result>>

CloseOnlyOnSuccess ==
    /\ \/ pc = "loop" /\ idx > Len(sheet_names)
       \/ pc = "unwind"
    /\ IF pc = "unwind"
       THEN pc' = "propagate" /\ ret' = Raised /\ UNCHANGED <<wb, closes>>
       ELSE pc' = "encode" /\ ret' = ret /\ wb' = "closed" /\ closes' = closes + 1
    /\ UNCHANGED <<args, lateReads, sheet_names, idx, cells_by_sheet, result>>

\* finally: wb.close(), lines 160-161, after the loop or while a fault unwinds.
CloseWorkbook ==
    /\ \/ pc = "loop" /\ idx > Len(sheet_names)
       \/ pc = "unwind"
    /\ wb' = "closed"
    /\ closes' = closes + 1
    /\ IF pc = "unwind"
       THEN pc' = "propagate" /\ ret' = Raised
       ELSE pc' = "encode" /\ ret' = ret
    /\ UNCHANGED <<args, lateReads, sheet_names, idx, cells_by_sheet, result>>

EncodeTextOnlyForT ==
    /\ pc = "encode"
    /\ ret' = (IF FmtChar(args.fmt) # <<"t">>
               THEN JsonResult(EncodeJson(sheet_names, cells_by_sheet, _parse_out(args.out)))
               ELSE TextResult(EncodeText(sheet_names, cells_by_sheet, _parse_out(args.out))))
    /\ pc' = "propagate"
    /\ UNCHANGED <<args, wb, closes, lateReads, sheet_names, idx, cells_by_sheet, result>>

\* Lines 163-177: the encoding fmt_char selects.
Encode ==
    /\ pc = "encode"
    /\ ret' = (IF FmtChar(args.fmt) = <<"j">>
               THEN JsonResult(EncodeJson(sheet_names, cells_by_sheet, _parse_out(args.out)))
               ELSE TextResult(EncodeText(sheet_names, cells_by_sheet, _parse_out(args.out))))
    /\ pc' = "propagate"
    /\ UNCHANGED <<args, wb, closes, lateReads, sheet_names, idx, cells_by_sheet, result>>

FacadeReturnSoft ==
    /\ pc = "propagate"
    /\ result' = (IF ret.kind = "raised" THEN ErrorResult(args.filepath) ELSE ret)
    /\ pc' = "returned"
    /\ UNCHANGED <<args, wb, closes, lateReads, sheet_names, idx, cells_by_sheet, ret>>

\* server.read_excel, line 37: what read_excel returned or raised goes to the caller.
FacadeReturn ==
    /\ pc = "propagate"
    /\ result' = ret
    /\ pc' = "returned"
    /\ UNCHANGED <<args, wb, closes, lateReads, sheet_names, idx, cells_by_sheet, ret>>

(***************************************************************************)
(* _esc on its own.                                                        *)
(***************************************************************************)
EscAlphabet == {BSL, TAB, CR, LF, "t", "n", "r", "a"}
NotEscaped == <<"NotEscaped">>

EscIdle == escIn = <<>> /\ escOut = NotEscaped

Escape ==
    /\ escOut = NotEscaped
    /\ escOut' = _esc(escIn)
    /\ UNCHANGED escIn

(***************************************************************************)
(* Projection of one cell under one out string, both renderings.           *)
(***************************************************************************)
TagOrder == <<"v", "b", "f", "n", "z", "c", "g">>
UpperChar(ch) ==
    CASE ch = "v" -> "V" [] ch = "b" -> "B" [] ch = "f" -> "F" [] ch = "n" -> "N"
      [] ch = "z" -> "Z" [] ch = "c" -> "C" [] ch = "g" -> "G"

\* The out strings: every choice of absent / lower case / upper case per field
\* letter, and strings that hold no field letter.
Spelled(sp) ==
    Concat([i \in 1..Len(TagOrder) |->
               CASE sp[TagOrder[i]] = "lower" -> <<TagOrder[i]>>
                 [] sp[TagOrder[i]] = "upper" -> <<UpperChar(TagOrder[i])>>
                 [] OTHER -> <<>>])

OutStrings ==
    {Spelled(sp) : sp \in [Tags -> {"absent", "lower", "upper"}]}
    \cup {<<"x">>, <<" ">>, <<"X", "1">>, <<"f", "x", "v", "f">>}

OneCellSheet(raw) == Sheet(1, 1, 1, 1, (<<1, 1>> :> raw))

ProjRawCells ==
    {RawCell(StrV(<<"a", TAB, BSL>>), BoldFont, Fill(Color(<<Red>>))),
     RawCell(StrV(<<"=", "a">>), PlainFont, NoFill),
     RawCell(StrV(<<"=">>), BoldFont, Fill(NoColor)),
     RawCell(IntV(0), NoFont, NoFill),
     RawCell(BoolV(FALSE), Font(FALSE, <<>>, <<>>, Color(<<>>)), Fill(Color(<<>>))),
     RawCell(NoneV, PlainFont, Fill(NoColor))}

ProjCells == {_CellData(OneCellSheet(raw), 1, 1) : raw \in ProjRawCells}

NoCell == _CellData(SheetEmpty, 1, 1)

ProjIdle == projOut = <<>> /\ projCell = NoCell /\ obj = <<>> /\ parts = <<>>

Project ==
    /\ obj = <<>>
    /\ obj' = _cell_to_json(projCell, _parse_out(projOut))
    /\ parts' = _cell_to_text_parts(projCell, _parse_out(projOut))
    /\ UNCHANGED <<projOut, projCell>>

(***************************************************************************)
(* Extraction from one sheet: lines 155-159 of read_excel.                 *)
(***************************************************************************)
RawKinds ==
    {RawCell(NoneV, PlainFont, NoFill),
     RawCell(StrV(<<>>), PlainFont, NoFill),
     RawCell(StrV(<<" ", TAB>>), BoldFont, NoFill),
     RawCell(StrV(<<"a">>), BoldFont, Fill(Color(<<Red>>))),
     RawCell(IntV(0), NoFont, NoFill),
     RawCell(BoolV(FALSE), PlainFont, NoFill)}

UsedCoords == {<<1, 1>>, <<1, 2>>, <<2, 1>>, <<2, 2>>}

Sheets == {Sheet(1, 2, 1, 2, g) : g \in [UsedCoords -> RawKinds]} \cup {SheetB, SheetEmpty}

NoRange == [st |-> "idle", row_start |-> 0, row_end |-> 0, col_start |-> 0, col_end |-> 0,
            sparse |-> TRUE, r1 |-> 0, r2 |-> 0, c1 |-> 0, c2 |-> 0]

CellsIdle == ws = SheetEmpty /\ rng = NoRange /\ cells = <<>>

Extract ==
    /\ rng.st = "idle"
    /\ \E row_start \in 0..MaxArg, row_end \in 0..MaxArg,
          col_start \in 0..MaxArg, col_end \in 0..MaxArg, sparse \in BOOLEAN :
          LET r == _sheet_range(ws, row_start, row_end, col_start, col_end)
              skip == Inverted(r)
          IN /\ ws' = ws
             /\ rng' = [st |-> IF skip THEN "skipped" ELSE "collected",
                        row_start |-> row_start, row_end |-> row_end,
                        col_start |-> col_start, col_end |-> col_end, sparse |-> sparse,
                        r1 |-> r[1], r2 |-> r[2], c1 |-> r[3], c2 |-> r[4]]
             /\ cells' = IF skip THEN <<>>
                         ELSE _collect_cells(ws, r[1], r[2], r[3], r[4], sparse)

(***************************************************************************)
(* Specifications.                                                         *)
(***************************************************************************)
Init == PipeIdle /\ EscIdle /\ ProjIdle /\ CellsIdle

Next ==
    \/ FacadeCall /\ UNCHANGED <<escVars, projVars, cellVars>>
    \/ LoadWorkbook /\ UNCHANGED <<escVars, projVars, cellVars>>
    \/ LoadFault /\ UNCHANGED <<escVars, projVars, cellVars>>
    \/ ProcessSheet /\ UNCHANGED <<escVars, projVars, cellVars>>
    \/ ExtractFault /\ UNCHANGED <<escVars, projVars, cellVars>>
    \/ CloseWorkbook /\ UNCHANGED <<escVars, projVars, cellVars>>
    \/ Encode /\ UNCHANGED <<escVars, projVars, cellVars>>
    \/ FacadeReturn /\ UNCHANGED <<escVars, projVars, cellVars>>

Spec == Init /\ [][Next]_vars

InitEsc ==
    /\ PipeIdle /\ ProjIdle /\ CellsIdle
    /\ escIn \in StringsOver(EscAlphabet, MaxLen)
    /\ escOut = NotEscaped

NextEsc == Escape /\ UNCHANGED <<pipeVars, projVars, cellVars>>

SpecEsc == InitEsc /\ [][NextEsc]_vars

InitProj ==
    /\ PipeIdle /\ EscIdle /\ CellsIdle
    /\ projOut \in OutStrings
    /\ projCell \in ProjCells
    /\ obj = <<>>
    /\ parts = <<>>

NextProj == Project /\ UNCHANGED <<pipeVars, escVars, cellVars>>

SpecProj == InitProj /\ [][NextProj]_vars

NextCells == Extract /\ UNCHANGED <<pipeVars, escVars, projVars>>

InitCells ==
    /\ PipeIdle /\ EscIdle /\ ProjIdle
    /\ ws \in Sheets
    /\ rng = NoRange
    /\ cells = <<>>

SpecCells == InitCells /\ [][NextCells]_vars

(***************************************************************************)
(* Reading the outputs back.                                               *)
(***************************************************************************)
\* The inverse of _esc, read left to right.
RECURSIVE Unescape(_)
Unescape(s) ==
    IF s = <<>> THEN <<>>
    ELSE IF Head(s) = BSL /\ Len(s) >= 2 /\ s[2] \in {BSL, "t", "r", "n"}
    THEN <<CASE s[2] = BSL -> BSL [] s[2] = "t" -> TAB [] s[2] = "r" -> CR [] OTHER -> LF>>
         \o Unescape(SubSeq(s, 3, Len(s)))
    ELSE <<Head(s)>> \o Unescape(Tail(s))

\* The text output as blocks: each header line with the cell lines under it.
RECURSIVE BlocksFrom(_, _)
BlocksFrom(lines, acc) ==
    IF lines = <<>> THEN acc
    ELSE IF Head(lines) # <<>> /\ Head(Head(lines)) = ">"
    THEN BlocksFrom(Tail(lines), Append(acc, <<Unescape(Tail(Head(lines))), <<>>>>))
    ELSE BlocksFrom(Tail(lines),
                    IF acc = <<>> THEN <<<<<<>>, <<Head(lines)>>>>>>
                    ELSE [acc EXCEPT ![Len(acc)] = <<@[1], Append(@[2], Head(lines))>>])

TextBlocks(text) == IF text = <<>> THEN <<>> ELSE BlocksFrom(Split(text, LF), <<>>)

OutDone == pc = "returned" /\ ret.kind \in {"json", "text"}
Book == Files[args.filepath]
Fields == _parse_out(args.out)

\* The document of this call in each encoding: the one returned, and the other
\* encoder on the same sheets and cells.
TheJson == IF ret.kind = "json" THEN ret.doc ELSE EncodeJson(sheet_names, cells_by_sheet, Fields)
TheText == IF ret.kind = "text" THEN ret.text ELSE EncodeText(sheet_names, cells_by_sheet, Fields)
TheBlocks == TextBlocks(TheText)

Resolved(n) ==
    _sheet_range(Book.sheets[n], args.row_start, args.row_end, args.col_start, args.col_end)

InWorkbook(n) == \E i \in 1..Len(Book.sheetnames) : Book.sheetnames[i] = n
ShouldAppear(n) ==
    InWorkbook(n) /\ Resolved(n)[1] <= Resolved(n)[2] /\ Resolved(n)[3] <= Resolved(n)[4]

\* Neither null nor a string that is empty once its whitespace is trimmed.
NonBlankRaw(v) ==
    /\ v.kind # "none"
    /\ v.kind = "str" => \E i \in 1..Len(v.s) : v.s[i] \notin {" ", TAB, CR, LF}

AllFiltered(n) ==
    /\ args.sparse
    /\ \A row \in Resolved(n)[1]..Resolved(n)[2], col \in Resolved(n)[3]..Resolved(n)[4] :
          ~NonBlankRaw(WsCell(Book.sheets[n], row, col).value)

TextHas(n) == \E i \in 1..Len(TheBlocks) : TheBlocks[i][1] = n

C2SheetPresence ==
    OutDone =>
        LET json == TheJson
            blocks == TheBlocks
        IN \A k \in 1..Len(sheet_names) :
               LET n == sheet_names[k]
               IN /\ (\E i \in 1..Len(json) : json[i][1] = n) <=> ShouldAppear(n)
                  /\ (\E i \in 1..Len(blocks) : blocks[i][1] = n) <=> ShouldAppear(n)
                  /\ (ShouldAppear(n) /\ AllFiltered(n)) =>
                        /\ \A i \in 1..Len(json) : json[i][1] = n => json[i][2] = <<>>
                        /\ \A i \in 1..Len(blocks) : blocks[i][1] = n => blocks[i][2] = <<>>

C2Witness ==
    /\ pc = "returned"
    /\ result.kind = "text"
    /\ sheet_names = <<NameA, NameB>>
    /\ InWorkbook(NameB) /\ ~ShouldAppear(NameB) /\ ~TextHas(NameB)
    /\ ShouldAppear(NameA) /\ AllFiltered(NameA) /\ TextHas(NameA)

(***************************************************************************)
(* C7                                                                      *)
(***************************************************************************)
\* C7: a workbook that was opened is closed exactly once by the time read_excel
\* ends, on the normal path and on a fault alike; it is never closed twice and no
\* cell is read after the close.
C7ClosedOnce ==
    /\ closes <= 1
    /\ lateReads = 0
    /\ wb = "none" => closes = 0
    /\ (pc \in {"encode", "propagate", "returned"} /\ wb # "none") => (wb = "closed" /\ closes = 1)

C7Witness ==
    /\ pc = "returned"
    /\ result.kind = "raised"
    /\ idx = 2
    /\ Len(sheet_names) = 2
    /\ DOMAIN cells_by_sheet # {}
    /\ closes = 1

(***************************************************************************)
(* C8                                                                      *)
(***************************************************************************)
\* C8: the facade answers "error: file not found: <path>", with no workbook
\* opened, exactly when the path does not exist; otherwise it hands back what
\* read_excel returned, and a fault of read_excel reaches the caller as a fault.
C8Facade ==
    pc = "returned" =>
        /\ (result.kind = "error") <=> (args.filepath \notin DOMAIN Files)
        /\ result.kind = "error" =>
              /\ result.text = <<"error: file not found: ">> \o args.filepath
              /\ wb = "none" /\ closes = 0 /\ ret = NoResult
        /\ result.kind # "error" => result = ret
        /\ ret.kind = "raised" => result.kind = "raised"

C8Witness == pc = "returned" /\ result.kind = "raised" /\ wb = "closed"

(***************************************************************************)
(* C9                                                                      *)
(***************************************************************************)
RowOf(o) == o[1][2][2]
ColOf(o) == o[2][2][2]

\* C9: in each sheet of the output the cells are in strictly increasing
\* (row, col) order, inside the resolved range, and the text cell lines carry
\* the same coordinates in the same order as the JSON cell list.
C9RowMajor ==
    OutDone =>
      LET json == TheJson
          blocks == TheBlocks
      IN
        /\ \A k \in 1..Len(json) :
              LET n == json[k][1]
                  cs == json[k][2]
              IN /\ \A i \in 1..Len(cs) :
                        /\ cs[i][1][1] = "row" /\ cs[i][2][1] = "col"
                        /\ RowOf(cs[i]) \in Resolved(n)[1]..Resolved(n)[2]
                        /\ ColOf(cs[i]) \in Resolved(n)[3]..Resolved(n)[4]
                 /\ \A i \in 1..(Len(cs) - 1) :
                        \/ RowOf(cs[i]) < RowOf(cs[i + 1])
                        \/ RowOf(cs[i]) = RowOf(cs[i + 1]) /\ ColOf(cs[i]) < ColOf(cs[i + 1])
        /\ \A b \in 1..Len(blocks) :
              \E k \in 1..Len(json) :
                  /\ json[k][1] = blocks[b][1]
                  /\ Len(blocks[b][2]) = Len(json[k][2])
                  /\ \A i \in 1..Len(blocks[b][2]) :
                        LET toks == Split(blocks[b][2][i], TAB)
                        IN /\ Len(toks) >= 3
                           /\ toks[1] = <<"c">>
                           /\ toks[2] = IntStr(RowOf(json[k][2][i]))
                           /\ toks[3] = IntStr(ColOf(json[k][2][i]))

C9Witness ==
    /\ pc = "returned"
    /\ result.kind = "text"
    /\ ~args.sparse
    /\ Len(TheBlocks) = 1
    /\ Len(TheBlocks[1][2]) = 4

(***************************************************************************)
(* C10                                                                     *)
(***************************************************************************)
\* C10: the text output and the JSON output of the same call name the same
\* sheets, in the same order, each once, with the same number of cells.
C10SameDocument ==
    OutDone =>
        LET json == TheJson
            blocks == TheBlocks
        IN /\ Len(blocks) = Len(json)
           /\ \A k \in 1..Len(blocks) :
                 k <= Len(json) =>
                     /\ blocks[k][1] = json[k][1]
                     /\ Len(blocks[k][2]) = Len(json[k][2])

(***************************************************************************)
(* C3                                                                      *)
(***************************************************************************)
RangeCoords == (rng.r1..rng.r2) \X (rng.c1..rng.c2)

\* C3: over a valid resolved range, sparse extraction emits as many cells as
\* there are coordinates whose raw value is neither null nor a string that is
\* empty after trimming (0 and False count); dense extraction emits
\* (r2-r1+1)*(c2-c1+1) cells.
C3CellCount ==
    rng.st = "collected" =>
        IF rng.sparse
        THEN Len(cells) = Cardinality({rc \in RangeCoords : NonBlankRaw(WsCell(ws, rc[1], rc[2]).value)})
        ELSE Len(cells) = (rng.r2 - rng.r1 + 1) * (rng.c2 - rng.c1 + 1)

C3Witness ==
    /\ rng.st = "collected"
    /\ rng.sparse
    /\ RangeCoords = UsedCoords
    /\ WsCell(ws, 1, 1).value = IntV(0)
    /\ WsCell(ws, 1, 2).value = BoolV(FALSE)
    /\ WsCell(ws, 2, 1).value = StrV(<<" ", TAB>>)
    /\ WsCell(ws, 2, 2).value = NoneV
    /\ Len(cells) = 2

(***************************************************************************)
(* C4                                                                      *)
(***************************************************************************)
JsonFieldKeys == SubSeq(Keys(obj), 3, Len(obj))
TextFieldKeys == SubSeq(Keys(parts), 4, Len(parts))

\* C4 as stated: the field keys of the JSON projection of a cell equal, in order
\* and in number, the fields rendered after 'c', row, col on its text line.
C4Original == obj # <<>> => JsonFieldKeys = TextFieldKeys

\* C4, amended: the JSON field keys are the text line's fields in the same
\* order, except that the text line carries the formula flag of every cell when
\* f is requested while the JSON object carries formula only for a formula cell.
C4Amended ==
    obj # <<>> =>
        /\ JsonFieldKeys =
              SelectSeq(TextFieldKeys, LAMBDA k : k # "formula" \/ projCell.is_formula)
        /\ (\E i \in 1..Len(projOut) : projOut[i] \in {"f", "F"}) =>
              \E i \in 1..Len(TextFieldKeys) : TextFieldKeys[i] = "formula"

C4Witness ==
    /\ obj # <<>>
    /\ ~projCell.is_formula
    /\ TextFieldKeys = <<"value", "formula", "bold", "font_name", "font_size", "font_color",
                         "fill_color">>
    /\ JsonFieldKeys = <<"value", "bold", "font_name", "font_size", "font_color", "fill_color">>

(***************************************************************************)
(* C5                                                                      *)
(***************************************************************************)
NoFieldLetter(out) ==
    \A i \in 1..Len(out) :
        out[i] \notin {"v", "b", "f", "n", "z", "c", "g", "V", "B", "F", "N", "Z", "C", "G"}

RowColOnly ==
    /\ Keys(obj) = <<"row", "col">>
    /\ Tokens(parts) = <<<<"c">>, IntStr(projCell.row), IntStr(projCell.col)>>

\* C5 as stated: an out string with none of the field letters, the empty string
\* included, leaves every cell with row and col only.
C5Original == (obj # <<>> /\ NoFieldLetter(projOut)) => RowColOnly

\* C5, amended: a non-empty out string with none of the field letters leaves
\* every cell with row and col only; the empty out string selects the default
\* fields value, formula and bold.
C5Amended ==
    obj # <<>> =>
        /\ (projOut # <<>> /\ NoFieldLetter(projOut)) => RowColOnly
        /\ projOut = <<>> =>
              /\ Keys(parts) = <<"c", "row", "col", "value", "formula", "bold">>
              /\ Keys(obj) = IF projCell.is_formula
                             THEN <<"row", "col", "value", "formula", "bold">>
                             ELSE <<"row", "col", "value", "bold">>

C5Witness == obj # <<>> /\ projOut = <<"X", "1">> /\ RowColOnly /\ projCell.value # <<>>

(***************************************************************************)
(* C6                                                                      *)
(***************************************************************************)
\* C6: _esc leaves no raw tab, newline or carriage return, the left-to-right
\* unescape of its result is the input, and the empty string stays empty.
C6RoundTrip ==
    escOut # NotEscaped =>
        /\ \A i \in 1..Len(escOut) : escOut[i] \notin {TAB, LF, CR}
        /\ Unescape(escOut) = escIn
        /\ escIn = <<>> => escOut = <<>>

C6Witness == escIn = <<BSL, "t", TAB>> /\ escOut = <<BSL, BSL, "t", BSL, "t">>

====
